---- MODULE Spec2Model ----
(***************************************************************************)
(* A model of orkes-io/go-parse: the KeywordTrie, the tokenizers, the      *)
(* boolean recursive-descent parser, the resolution of Unparsed leaves and *)
(* the fallback interpreter combinator.                                    *)
(*                                                                         *)
(* A Go string is modelled as the sequence of its runes; a rune is an atom *)
(* written as a one-character TLA+ string ("laquo" and "raquo" stand for   *)
(* the two-byte runes U+00AB and U+00BB).  The empty string is << >>.      *)
(***************************************************************************)
EXTENDS Integers, Sequences, FiniteSets, TLC

VARIABLES
    trie,     \* the KeywordTrie being built (root node)
    added,    \* the keywords passed to Add so far
    op,       \* the last operation the driver applied
    arg,      \* its input
    ret,      \* its outcome
    tokens,   \* Parser.tokens of the shared boolean parser
    curr,     \* Parser.curr of the shared boolean parser
    calls     \* the Parse calls in flight on the shared parser, one per caller

vars == <<trie, added, op, arg, ret, tokens, curr, calls>>

(***************************************************************************)
(* Bounds of the model.                                                    *)
(***************************************************************************)
MaxAdds == 3
MaxStreamLen == 3
MaxStrLen == 4
MaxTokens == 5
MaxOps == 4
MaxCompTokens == 4
MaxEvalTokens == 4
MaxFoldTokens == 3
MaxRunLen == 3

(***************************************************************************)
(* Runes and strings.                                                      *)
(***************************************************************************)
NonAscii == {"laquo", "raquo"}

\* the UTF-8 width of a rune, which is what Go's len(string) counts
ByteLen(r) == IF r \in NonAscii THEN 2 ELSE 1

RECURSIVE len(_)
len(str) == IF str = << >> THEN 0 ELSE ByteLen(Head(str)) + len(Tail(str))

IsSpace(r) == r \in {" ", "\t", "\n"}

Upper == <<"A", "B", "D", "N", "O", "R", "T", "X">>
Lower == <<"a", "b", "d", "n", "o", "r", "t", "x">>

ToLowerRune(r) ==
    IF \E i \in 1..Len(Upper) : Upper[i] = r
    THEN Lower[CHOOSE i \in 1..Len(Upper) : Upper[i] = r]
    ELSE r

ToLower(str) == [i \in 1..Len(str) |-> ToLowerRune(str[i])]

\* every sequence over S of length at most n
SeqsUpTo(S, n) == UNION {[1..k -> S] : k \in 0..n}

IsPrefix(k, s) == Len(k) <= Len(s) /\ SubSeq(s, 1, Len(k)) = k

\* the strings of toks joined by single spaces
RECURSIVE JoinSp(_)
JoinSp(toks) ==
    IF toks = << >>
    THEN << >>
    ELSE IF Len(toks) = 1 THEN toks[1] ELSE toks[1] \o <<" ">> \o JoinSp(Tail(toks))

\* index of the first element of seq equal to x, 0 when there is none
IndexOf(seq, x) ==
    IF \E i \in 1..Len(seq) : seq[i] = x
    THEN CHOOSE i \in 1..Len(seq) : seq[i] = x /\ \A j \in 1..(i - 1) : seq[j] # x
    ELSE 0

(***************************************************************************)
(* KeywordTrie.                                                            *)
(***************************************************************************)
EmptyTrie == [children |-> << >>, runes |-> << >>, leaf |-> << >>]

RECURSIVE add(_, _, _)
add(t, orig, keyword) ==
    IF Len(keyword) = 0
    THEN [t EXCEPT !.leaf = orig]
    ELSE LET next == Head(keyword)
             idx == IndexOf(t.runes, next)
         IN IF idx # 0
            THEN [t EXCEPT !.children[idx] = add(@, orig, Tail(keyword))]
            ELSE [t EXCEPT !.runes = Append(@, next),
                           !.children = Append(@, add(EmptyTrie, orig, Tail(keyword)))]

Add(t, keyword) == add(t, keyword, keyword)

\* a Match that stops at the first keyword on the path instead of the longest
RECURSIVE MatchShortest(_, _)
MatchShortest(t, stream) ==
    IF t.leaf # << >> \/ Len(stream) = 0
    THEN t.leaf
    ELSE LET idx == IndexOf(t.runes, Head(stream))
         IN IF idx # 0 THEN MatchShortest(t.children[idx], Tail(stream)) ELSE t.leaf

RECURSIVE Match(_, _)
Match(t, stream) ==
    IF Len(stream) = 0
    THEN t.leaf
    ELSE LET idx == IndexOf(t.runes, Head(stream))
         IN IF idx # 0
            THEN LET result == Match(t.children[idx], Tail(stream))
                 IN IF result = << >> THEN t.leaf ELSE result
            ELSE t.leaf

MatchStr(t, str) == Match(t, str)

Contains(t, str) == Match(t, str) = str

RECURSIVE Count(_)
RECURSIVE CountChildren(_, _)
CountChildren(t, i) ==
    IF i > Len(t.children) THEN 0 ELSE Count(t.children[i]) + CountChildren(t, i + 1)

Count(t) == (IF t.leaf # << >> THEN 1 ELSE 0) + CountChildren(t, 1)

(***************************************************************************)
(* Errors (src/ast.go) and AST nodes.                                      *)
(***************************************************************************)
NoErr == "nil"
ErrConfig == "ErrConfig"
ErrParse == "ErrParse"
ErrEval == "ErrEval"
ErrUnknownAST == "ErrUnknownAST"

NilAST == [type |-> "nil"]

Unparsed(contents) == [type |-> "Unparsed", Contents |-> contents]

OpAnd == "AND"
OpOr == "OR"
OpNot == "NOT"

BinExpr(lhs, rhs, o) == [type |-> "BinExpr", LHS |-> lhs, RHS |-> rhs, Op |-> o]

UnaryExpr(o, expr) == [type |-> "UnaryExpr", Op |-> o, Expr |-> expr]

(***************************************************************************)
(* Tokenize of src/ast.go: isKeyword is membership in the set keywords.    *)
(***************************************************************************)
Flush(result, substr) == IF Len(substr) # 0 THEN Append(result, substr) ELSE result

RECURSIVE TokenizeLoop(_, _, _, _, _, _, _)
TokenizeLoop(runes, i, open, close, keywords, substr, result) ==
    IF i > Len(runes)
    THEN Flush(result, substr)
    ELSE IF runes[i] = open \/ runes[i] = close
         THEN TokenizeLoop(runes, i + 1, open, close, keywords, << >>,
                           Append(Flush(result, substr), <<runes[i]>>))
         ELSE IF IsSpace(runes[i])
              THEN TokenizeLoop(runes, i + 1, open, close, keywords, << >>,
                                Flush(result, substr))
              ELSE IF Append(substr, runes[i]) \in keywords
                   THEN TokenizeLoop(runes, i + 1, open, close, keywords, << >>,
                                     Append(result, Append(substr, runes[i])))
                   ELSE TokenizeLoop(runes, i + 1, open, close, keywords,
                                     Append(substr, runes[i]), result)

Tokenize(str, open, close, keywords) ==
    TokenizeLoop(str, 1, open, close, keywords, << >>, << >>)

(***************************************************************************)
(* The boolean parser (src/bool/bool.go).  A Parser is the record of its   *)
(* fields: config, keywords, caseInsensitive, tokens, curr.                *)
(***************************************************************************)
Token == {"And", "Or", "Not", "OpenParen", "CloseParen"}

W_AND == <<"A", "N", "D">>
W_OR == <<"O", "R">>
W_NOT == <<"N", "O", "T">>

DefaultConfig ==
    [And |-> W_AND, Or |-> W_OR, Not |-> W_NOT, OpenParen |-> <<"(">>, CloseParen |-> <<")">>]

NilParser == [type |-> "nil"]

\* Parser.init, applied to the struct NewParser filled in
init(p) ==
    IF len(p.config.OpenParen) # 1 \/ len(p.config.CloseParen) # 1
    THEN [p |-> p, err |-> ErrConfig]
    ELSE IF p.config.OpenParen = p.config.CloseParen
         THEN [p |-> p, err |-> ErrConfig]
         ELSE LET newTokens == IF p.caseInsensitive
                               THEN [t \in Token |-> ToLower(p.config[t])]
                               ELSE p.config
                  keywords == {newTokens[t] : t \in Token}
                  q == [p EXCEPT !.config = newTokens, !.keywords = keywords]
              IN IF Cardinality(keywords) # 5
                 THEN [p |-> q, err |-> ErrConfig]
                 ELSE [p |-> q, err |-> NoErr]

\* NewParser(WithTokens(config), WithCaseSensitive(~caseInsensitive))
NewParser(config, caseInsensitive) ==
    LET r == init([config |-> config, keywords |-> {},
                   caseInsensitive |-> caseInsensitive, tokens |-> << >>, curr |-> 0])
    IN IF r.err # NoErr THEN [p |-> NilParser, err |-> r.err] ELSE [p |-> r.p, err |-> NoErr]

\* an isKeyword that accepts every string ending in a keyword
isKeywordSuffix(p, str) ==
    \E k \in p.keywords : Len(k) <= Len(str) /\ SubSeq(str, Len(str) - Len(k) + 1, Len(str)) = k

isKeyword(p, str) == str \in p.keywords

RECURSIVE tokenizeLoop(_, _, _, _, _)
tokenizeLoop(p, runes, i, substr, result) ==
    IF i > Len(runes)
    THEN Flush(result, substr)
    ELSE IF <<runes[i]>> = p.config.OpenParen \/ <<runes[i]>> = p.config.CloseParen
         THEN tokenizeLoop(p, runes, i + 1, << >>,
                           Append(Flush(result, substr), <<runes[i]>>))
         ELSE IF IsSpace(runes[i])
              THEN tokenizeLoop(p, runes, i + 1, << >>, Flush(result, substr))
              ELSE IF isKeyword(p, Append(substr, runes[i]))
                   THEN tokenizeLoop(p, runes, i + 1, << >>,
                                     Append(result, Append(substr, runes[i])))
                   ELSE tokenizeLoop(p, runes, i + 1, Append(substr, runes[i]), result)

\* a tokenize that scans the input as it was written
tokenizeUnfolded(p, str) == tokenizeLoop(p, str, 1, << >>, << >>)

tokenize(p, str) ==
    tokenizeLoop(p, IF p.caseInsensitive THEN ToLower(str) ELSE str, 1, << >>, << >>)

\* p.tokens[p.curr]; Go indexes from 0
peek(p) == p.tokens[p.curr + 1]

match(p, token) ==
    IF p.curr = Len(p.tokens)
    THEN [ok |-> FALSE, p |-> p]
    ELSE IF peek(p) = p.config[token]
         THEN [ok |-> TRUE, p |-> [p EXCEPT !.curr = @ + 1]]
         ELSE [ok |-> FALSE, p |-> p]

Fail(e, p) == [ast |-> NilAST, err |-> e, p |-> p]

Ok(ast, p) == [ast |-> ast, err |-> NoErr, p |-> p]

RECURSIVE parseRestLoop(_, _)
parseRestLoop(p, result) ==
    IF p.curr < Len(p.tokens) /\ ~isKeyword(p, peek(p))
    THEN parseRestLoop([p EXCEPT !.curr = @ + 1], Append(result, peek(p)))
    ELSE [result |-> result, p |-> p]

parseRest(p) ==
    LET rest(l) ==
            IF l.result = << >> THEN Fail(ErrParse, l.p) ELSE Ok(Unparsed(l.result), l.p)
    IN rest(parseRestLoop(p, << >>))

RECURSIVE parseExpr(_)
RECURSIVE parseAnd(_)
RECURSIVE parseOr(_)
RECURSIVE parseNot(_)
RECURSIVE parseParens(_)

parseParens(p) ==
    LET closed(e, c) == IF ~c.ok THEN Fail(ErrParse, c.p) ELSE Ok(e.ast, c.p)
        inner(e) == IF e.err # NoErr THEN Fail(e.err, e.p) ELSE closed(e, match(e.p, "CloseParen"))
        opened(o) == IF o.ok THEN inner(parseExpr(o.p)) ELSE parseRest(o.p)
    IN opened(match(p, "OpenParen"))

\* a parseNot that consumes the NOT and returns its operand alone
parseNotDropped(p) ==
    LET matched(n) == parseParens(n.p)
    IN matched(match(p, "Not"))

parseNot(p) ==
    LET negated(n, rest) ==
            IF ~n.ok
            THEN rest
            ELSE IF rest.err # NoErr
                 THEN Fail(rest.err, rest.p)
                 ELSE Ok(UnaryExpr(OpNot, rest.ast), rest.p)
        matched(n) == negated(n, parseParens(n.p))
    IN matched(match(p, "Not"))

\* a parseOr that builds its chain to the left
RECURSIVE parseOrLeft(_, _)
parseOrLeft(acc, p) ==
    LET right(rhs) ==
            IF rhs.err # NoErr
            THEN Fail(rhs.err, rhs.p)
            ELSE parseOrLeft(BinExpr(acc, rhs.ast, OpOr), rhs.p)
        matched(m) == IF m.ok THEN right(parseNot(m.p)) ELSE Ok(acc, m.p)
    IN matched(match(p, "Or"))

parseOrLeftAssoc(p) ==
    LET left(lhs) ==
            IF lhs.err # NoErr THEN Fail(lhs.err, lhs.p) ELSE parseOrLeft(lhs.ast, lhs.p)
    IN left(parseNot(p))

parseOr(p) ==
    LET right(lhs, rhs) ==
            IF rhs.err # NoErr
            THEN Fail(rhs.err, rhs.p)
            ELSE Ok(BinExpr(lhs.ast, rhs.ast, OpOr), rhs.p)
        matched(lhs, m) == IF m.ok THEN right(lhs, parseOr(m.p)) ELSE Ok(lhs.ast, m.p)
        left(lhs) ==
            IF lhs.err # NoErr THEN Fail(lhs.err, lhs.p) ELSE matched(lhs, match(lhs.p, "Or"))
    IN left(parseNot(p))

\* a parseAnd that builds its BinExpr with the operands exchanged
RECURSIVE parseAndSwapped(_)
parseAndSwapped(p) ==
    LET right(lhs, rhs) ==
            IF rhs.err # NoErr
            THEN Fail(rhs.err, rhs.p)
            ELSE Ok(BinExpr(rhs.ast, lhs.ast, OpAnd), rhs.p)
        matched(lhs, m) == IF m.ok THEN right(lhs, parseAndSwapped(m.p)) ELSE Ok(lhs.ast, m.p)
        left(lhs) ==
            IF lhs.err # NoErr THEN Fail(lhs.err, lhs.p) ELSE matched(lhs, match(lhs.p, "And"))
    IN left(parseOr(p))

parseAnd(p) ==
    LET right(lhs, rhs) ==
            IF rhs.err # NoErr
            THEN Fail(rhs.err, rhs.p)
            ELSE Ok(BinExpr(lhs.ast, rhs.ast, OpAnd), rhs.p)
        matched(lhs, m) == IF m.ok THEN right(lhs, parseAnd(m.p)) ELSE Ok(lhs.ast, m.p)
        left(lhs) ==
            IF lhs.err # NoErr THEN Fail(lhs.err, lhs.p) ELSE matched(lhs, match(lhs.p, "And"))
    IN left(parseOr(p))

parseExpr(p) == parseAnd(p)

\* a Parse that does not check for tokens left over
ParseNoEndCheck(p, str) ==
    LET parsed(e) == IF e.err # NoErr THEN Fail(e.err, e.p) ELSE Ok(e.ast, e.p)
    IN parsed(parseExpr([p EXCEPT !.tokens = tokenize(p, str), !.curr = 0]))

Parse(p, str) ==
    LET parsed(e) ==
            IF e.err # NoErr
            THEN Fail(e.err, e.p)
            ELSE IF e.p.curr # Len(e.p.tokens) THEN Fail(ErrParse, e.p) ELSE Ok(e.ast, e.p)
    IN parsed(parseExpr([p EXCEPT !.tokens = tokenize(p, str), !.curr = 0]))

(***************************************************************************)
(* Tokenization as section 4.2 of the specification words it: at every     *)
(* position that is neither a parenthesis nor whitespace the keyword trie  *)
(* is matched against the rest of the input.                               *)
(***************************************************************************)
RECURSIVE AddAll(_, _)
AddAll(t, keywords) ==
    IF keywords = {}
    THEN t
    ELSE LET k == CHOOSE x \in keywords : TRUE
         IN AddAll(Add(t, k), keywords \ {k})

RECURSIVE TrieTokenizeLoop(_, _, _, _, _, _, _)
TrieTokenizeLoop(runes, i, open, close, t, substr, result) ==
    IF i > Len(runes)
    THEN Flush(result, substr)
    ELSE IF runes[i] = open \/ runes[i] = close
         THEN TrieTokenizeLoop(runes, i + 1, open, close, t, << >>,
                               Append(Flush(result, substr), <<runes[i]>>))
         ELSE IF IsSpace(runes[i])
              THEN TrieTokenizeLoop(runes, i + 1, open, close, t, << >>,
                                    Flush(result, substr))
              ELSE LET kw == Match(t, SubSeq(runes, i, Len(runes)))
                   IN IF kw # << >>
                      THEN TrieTokenizeLoop(runes, i + Len(kw), open, close, t, << >>,
                                            Append(Flush(result, substr), kw))
                      ELSE TrieTokenizeLoop(runes, i + 1, open, close, t,
                                            Append(substr, runes[i]), result)

TrieTokenize(str, open, close, t) ==
    TrieTokenizeLoop(str, 1, open, close, t, << >>, << >>)

(***************************************************************************)
(* The comparison parser.  Its source is not part of the files modelled:   *)
(* the grammar is the one of section 4.4 of the specification, its         *)
(* tokenizer the one of section 4.2, and its node types and default        *)
(* operators are those src/comp/comp_test.go builds its expectations from. *)
(***************************************************************************)
OpEqual == "EQUAL"
OpNotEqual == "NOT_EQUAL"
OpGreater == "GREATER"
OpGreaterOrEqual == "GREATER_OR_EQUAL"
OpLess == "LESS"
OpLessOrEqual == "LESS_OR_EQUAL"

EqualExpr(lhs, rhs, o) == [type |-> "EqualExpr", LHS |-> lhs, RHS |-> rhs, Op |-> o]

OrdinalExpr(lhs, rhs, o) == [type |-> "OrdinalExpr", LHS |-> lhs, RHS |-> rhs, Op |-> o]

CompConfig ==
    [Equal |-> <<"=", "=">>, NotEqual |-> <<"!", "=">>, Greater |-> <<">">>,
     GreaterOrEqual |-> <<">", "=">>, Less |-> <<"<">>, LessOrEqual |-> <<"<", "=">>,
     OpenParen |-> <<"(">>, CloseParen |-> <<")">>]

CompOperators ==
    {CompConfig.Equal, CompConfig.NotEqual, CompConfig.Greater, CompConfig.GreaterOrEqual,
     CompConfig.Less, CompConfig.LessOrEqual}

CompKeywords == CompOperators \cup {CompConfig.OpenParen, CompConfig.CloseParen}

EqualOp(tok) == IF tok = CompConfig.Equal THEN OpEqual ELSE OpNotEqual

OrdinalOp(tok) ==
    IF tok = CompConfig.Greater THEN OpGreater
    ELSE IF tok = CompConfig.GreaterOrEqual THEN OpGreaterOrEqual
    ELSE IF tok = CompConfig.Less THEN OpLess
    ELSE OpLessOrEqual

compTokenize(str) == TrieTokenize(str, "(", ")", AddAll(EmptyTrie, CompOperators))

\* the next token of parser state p = [tokens, curr], "end" after the last one
compPeek(p) == IF p.curr = Len(p.tokens) THEN <<"end">> ELSE p.tokens[p.curr + 1]

compAdvance(p) == [p EXCEPT !.curr = @ + 1]

RECURSIVE compUnparsedLoop(_, _)
compUnparsedLoop(p, result) ==
    IF p.curr < Len(p.tokens) /\ compPeek(p) \notin CompKeywords
    THEN compUnparsedLoop(compAdvance(p), Append(result, compPeek(p)))
    ELSE [result |-> result, p |-> p]

compUnparsed(p) ==
    LET rest(l) ==
            IF l.result = << >> THEN Fail(ErrParse, l.p) ELSE Ok(Unparsed(l.result), l.p)
    IN rest(compUnparsedLoop(p, << >>))

RECURSIVE compExpr(_)
RECURSIVE compEqual(_)
RECURSIVE compOrdinal(_)
RECURSIVE compTerm(_)

compTerm(p) ==
    IF compPeek(p) = CompConfig.OpenParen
    THEN LET inner(e) ==
                 IF e.err # NoErr
                 THEN Fail(e.err, e.p)
                 ELSE IF compPeek(e.p) # CompConfig.CloseParen
                      THEN Fail(ErrParse, e.p)
                      ELSE Ok(e.ast, compAdvance(e.p))
         IN inner(compExpr(compAdvance(p)))
    ELSE compUnparsed(p)

\* an ordinal level that keeps applying operators, chaining to the left
RECURSIVE compOrdinalChain(_, _)
compOrdinalChain(acc, p) ==
    IF compPeek(p) \in {CompConfig.GreaterOrEqual, CompConfig.Greater,
                        CompConfig.Less, CompConfig.LessOrEqual}
    THEN LET right(rhs) ==
                 IF rhs.err # NoErr
                 THEN Fail(rhs.err, rhs.p)
                 ELSE compOrdinalChain(OrdinalExpr(acc, rhs.ast, OrdinalOp(compPeek(p))),
                                       rhs.p)
         IN right(compTerm(compAdvance(p)))
    ELSE Ok(acc, p)

compOrdinalChained(p) ==
    LET left(lhs) ==
            IF lhs.err # NoErr THEN Fail(lhs.err, lhs.p) ELSE compOrdinalChain(lhs.ast, lhs.p)
    IN left(compTerm(p))

compOrdinal(p) ==
    LET right(lhs, rhs) ==
            IF rhs.err # NoErr
            THEN Fail(rhs.err, rhs.p)
            ELSE Ok(OrdinalExpr(lhs.ast, rhs.ast, OrdinalOp(compPeek(lhs.p))), rhs.p)
        left(lhs) ==
            IF lhs.err # NoErr
            THEN Fail(lhs.err, lhs.p)
            ELSE IF compPeek(lhs.p) \in {CompConfig.GreaterOrEqual, CompConfig.Greater,
                                         CompConfig.Less, CompConfig.LessOrEqual}
                 THEN right(lhs, compTerm(compAdvance(lhs.p)))
                 ELSE Ok(lhs.ast, lhs.p)
    IN left(compTerm(p))

compEqual(p) ==
    LET right(lhs, rhs) ==
            IF rhs.err # NoErr
            THEN Fail(rhs.err, rhs.p)
            ELSE Ok(EqualExpr(lhs.ast, rhs.ast, EqualOp(compPeek(lhs.p))), rhs.p)
        left(lhs) ==
            IF lhs.err # NoErr
            THEN Fail(lhs.err, lhs.p)
            ELSE IF compPeek(lhs.p) \in {CompConfig.Equal, CompConfig.NotEqual}
                 THEN right(lhs, compOrdinal(compAdvance(lhs.p)))
                 ELSE Ok(lhs.ast, lhs.p)
    IN left(compOrdinal(p))

compExpr(p) == compEqual(p)

compParseStr(str) ==
    LET parsed(e) ==
            IF e.err # NoErr
            THEN [ast |-> NilAST, err |-> e.err]
            ELSE IF e.p.curr # Len(e.p.tokens)
                 THEN [ast |-> NilAST, err |-> ErrParse]
                 ELSE [ast |-> e.ast, err |-> NoErr]
    IN parsed(compExpr([tokens |-> compTokenize(str), curr |-> 0]))

\* Parser.Parse(tokens []string) of the comparison parser
compParse(toks) == compParseStr(JoinSp(toks))

(***************************************************************************)
(* AST.Parse(Parser): the resolution of Unparsed leaves.  Unparsed.Parse   *)
(* is src/ast.go; the composite nodes' Parse methods are not in the files  *)
(* modelled and follow section 4.5 of the specification.                   *)
(***************************************************************************)
\* a leaf of a grammar that leaves nothing unparsed: its Parse has nothing to resolve
Literal(contents) == [type |-> "Literal", Contents |-> contents]

LiteralParse(l, parser) == [ast |-> l, err |-> NoErr]

\* the parsers handed to AST.Parse, by name: the comparison parser, a parser whose
\* result is a Literal holding the tokens, and a parser that accepts nothing
ParseTokens(parser, toks) ==
    IF parser = "comp"
    THEN compParse(toks)
    ELSE IF parser = "lit"
         THEN [ast |-> Literal(toks), err |-> NoErr]
         ELSE [ast |-> NilAST, err |-> ErrParse]

\* an Unparsed.Parse that hands its tokens to the parser
UnparsedParseResolves(u, parser) == ParseTokens(parser, u.Contents)

\* Unparsed.Parse has a value receiver and returns only an error: the node stays
UnparsedParse(u, parser) == [ast |-> u, err |-> ErrParse]

RECURSIVE ASTParse(_, _)

\* a composite that hands the parser every leaf, resolved or not
ResolveChildReparse(child, parser) ==
    IF child.type \in {"Unparsed", "Literal"}
    THEN ParseTokens(parser, child.Contents)
    ELSE ASTParse(child, parser)

\* a child that is an Unparsed leaf is replaced by the parser's result for its
\* tokens; any other child resolves its own leaves
ResolveChild(child, parser) ==
    IF child.type = "Unparsed"
    THEN ParseTokens(parser, child.Contents)
    ELSE ASTParse(child, parser)

BinaryParse(b, parser) ==
    LET right(l, r) ==
            IF r.err # NoErr
            THEN [ast |-> [b EXCEPT !.LHS = l.ast], err |-> r.err]
            ELSE [ast |-> [b EXCEPT !.LHS = l.ast, !.RHS = r.ast], err |-> NoErr]
        left(l) ==
            IF l.err # NoErr
            THEN [ast |-> b, err |-> l.err]
            ELSE right(l, ResolveChild(b.RHS, parser))
    IN left(ResolveChild(b.LHS, parser))

UnaryParse(u, parser) ==
    LET resolved(e) ==
            IF e.err # NoErr
            THEN [ast |-> u, err |-> e.err]
            ELSE [ast |-> [u EXCEPT !.Expr = e.ast], err |-> NoErr]
    IN resolved(ResolveChild(u.Expr, parser))

ASTParse(ast, parser) ==
    IF ast.type = "Unparsed"
    THEN UnparsedParse(ast, parser)
    ELSE IF ast.type = "Literal"
    THEN LiteralParse(ast, parser)
    ELSE IF ast.type = "UnaryExpr"
         THEN UnaryParse(ast, parser)
         ELSE BinaryParse(ast, parser)

(***************************************************************************)
(* Interpreter.WithFallback (src/ast.go).  An interpreter is a record of a *)
(* name and a table from nodes to outcomes [val, err]; err is the chain of *)
(* the error's wrapped sentinels, << >> for nil.  Calling one is recorded  *)
(* in the outcome's trace.                                                 *)
(***************************************************************************)
ErrorsIs(err, target) == \E k \in 1..Len(err) : err[k] = target

Call(i, ast) ==
    [val |-> i.f[ast].val, err |-> i.f[ast].err, trace |-> << <<i.name, ast>> >>]

\* a combinator that falls back on every error
WithFallbackOnAnyError(i, b, ast) ==
    LET a == Call(i, ast)
    IN IF a.err # << >>
       THEN LET s == Call(b, ast)
            IN [val |-> s.val, err |-> s.err, trace |-> a.trace \o s.trace]
       ELSE a

\* the interpreter i.WithFallback(b), applied to ast
WithFallback(i, b, ast) ==
    LET a == Call(i, ast)
    IN IF ErrorsIs(a.err, ErrUnknownAST)
       THEN LET s == Call(b, ast)
            IN [val |-> s.val, err |-> s.err, trace |-> a.trace \o s.trace]
       ELSE a

(***************************************************************************)
(* Eval and VarInterpreter of package bools.  Their source is not part of  *)
(* the files modelled; they follow section 4.6 of the specification: AND   *)
(* and OR evaluate their left operand first and the right one only when it *)
(* decides the value, NOT negates, an Unparsed leaf is looked up by name   *)
(* in the variables, and a missing variable or a nil lookup source is      *)
(* ErrEval.  The outcome records the names looked up, in order.            *)
(***************************************************************************)
NilLookup == [type |-> "nil"]

\* VarInterpreter(input): input is a function from names to booleans
VarInterpreter(input) == [type |-> "vars", vars |-> input]

EvalFail(trace) == [val |-> FALSE, err |-> ErrEval, trace |-> trace]

EvalOk(val, trace) == [val |-> val, err |-> NoErr, trace |-> trace]

\* the leaf resolver: the leaf's single token is the variable's name
EvalLeaf(leaf, i) ==
    IF Len(leaf.Contents) # 1
    THEN EvalFail(<< >>)
    ELSE IF leaf.Contents[1] \in DOMAIN i.vars
         THEN EvalOk(i.vars[leaf.Contents[1]], <<leaf.Contents[1]>>)
         ELSE EvalFail(<<leaf.Contents[1]>>)

\* an evaluator that always evaluates both operands of AND and OR
RECURSIVE EvalEagerNode(_, _)
EvalEagerNode(ast, i) ==
    IF ast.type = "Unparsed"
    THEN EvalLeaf(ast, i)
    ELSE IF ast.type = "UnaryExpr"
         THEN LET negated(e) == IF e.err # NoErr THEN e ELSE EvalOk(~e.val, e.trace)
              IN negated(EvalEagerNode(ast.Expr, i))
         ELSE LET both(l, r) ==
                      IF l.err # NoErr
                      THEN l
                      ELSE IF r.err # NoErr
                           THEN EvalFail(l.trace \o r.trace)
                           ELSE EvalOk(IF ast.Op = OpAnd THEN l.val /\ r.val
                                                         ELSE l.val \/ r.val,
                                       l.trace \o r.trace)
              IN both(EvalEagerNode(ast.LHS, i), EvalEagerNode(ast.RHS, i))

EvalEager(ast, i) ==
    IF i = NilLookup \/ ast = NilAST THEN EvalFail(<< >>) ELSE EvalEagerNode(ast, i)

RECURSIVE EvalNode(_, _)
EvalNode(ast, i) ==
    IF ast.type = "Unparsed"
    THEN EvalLeaf(ast, i)
    ELSE IF ast.type = "UnaryExpr"
         THEN LET negated(e) == IF e.err # NoErr THEN e ELSE EvalOk(~e.val, e.trace)
              IN negated(EvalNode(ast.Expr, i))
         ELSE LET right(l, r) ==
                      IF r.err # NoErr
                      THEN EvalFail(l.trace \o r.trace)
                      ELSE EvalOk(r.val, l.trace \o r.trace)
                  left(l) ==
                      IF l.err # NoErr
                      THEN l
                      ELSE IF ast.Op = OpAnd /\ ~l.val
                           THEN EvalOk(FALSE, l.trace)
                           ELSE IF ast.Op = OpOr /\ l.val
                                THEN EvalOk(TRUE, l.trace)
                                ELSE right(l, EvalNode(ast.RHS, i))
              IN left(EvalNode(ast.LHS, i))

\* Eval(ast, interpreter)
Eval(ast, i) ==
    IF i = NilLookup \/ ast = NilAST THEN EvalFail(<< >>) ELSE EvalNode(ast, i)

(***************************************************************************)
(* Inputs of the drivers.                                                  *)
(***************************************************************************)
\* the keywords of TestKeywordTrie
TrieKeywords ==
    {<<">", "=">>, <<">">>, <<"<", "=">>, <<"<">>, <<"=", "=">>, <<"!", "=">>, <<"!">>}

TrieRunes == {"<", "=", "!", "h"}

Streams == SeqsUpTo(TrieRunes, MaxStreamLen)

\* configurations: every assignment of these strings to the five tokens
KeywordPool == {W_AND, <<"a", "n", "d">>, W_OR, W_NOT}

ParenPool == {<<"(">>, <<")">>, <<"(", "(">>, << >>, <<"laquo">>, <<"raquo">>, <<"A">>, <<"a">>}

Configs ==
    {[And |-> a, Or |-> o, Not |-> n, OpenParen |-> op1, CloseParen |-> cl] :
        a \in KeywordPool, o \in KeywordPool, n \in {W_NOT, <<"(">>},
        op1 \in ParenPool, cl \in ParenPool}

\* Tokenize: strings over these runes, with '>' and '>=' the keywords
TokenizeRunes == {"x", ">", "=", " ", "("}

TokenizeKeywords == {<<">">>, <<">", "=">>}

TokenizeInputs == SeqsUpTo(TokenizeRunes, MaxStrLen) \cup {<<"x", ">", "=", "3">>}

\* Parse: every sequence of these tokens, joined by single spaces
Vocab == {W_AND, W_OR, W_NOT, <<"(">>, <<")">>, <<"x">>}

TokenInputs ==
    {[family |-> "tokens", toks |-> ts, str |-> JoinSp(ts)] : ts \in SeqsUpTo(Vocab, MaxTokens)}

\* Parse: chains of operands joined by AND and OR, without parentheses
OperandNames == <<"a", "b", "c", "d", "e", "f">>

Operand(i, wide) ==
    IF wide THEN << <<OperandNames[i]>>, <<"=", "=">>, <<"5">> >> ELSE << <<OperandNames[i]>> >>

RECURSIVE ChainFrom(_, _, _)
ChainFrom(ops, i, wide) ==
    IF i > Len(ops)
    THEN Operand(i, wide)
    ELSE Operand(i, wide) \o <<ops[i]>> \o ChainFrom(ops, i + 1, wide)

ChainInputs ==
    {[family |-> "chain", ops |-> ops, wide |-> w, str |-> JoinSp(ChainFrom(ops, 1, w))] :
        ops \in SeqsUpTo({W_AND, W_OR}, MaxOps), w \in BOOLEAN}

\* Parse: runs without whitespace that hold a keyword after other characters, alone or
\* followed by 'OR abc'
RunRunes == {"x", "O", "R"}

RunInputs ==
    {[family |-> "run", run |-> r, toks |-> <<r>> \o rest, str |-> JoinSp(<<r>> \o rest)] :
        r \in {pre \o kw \o post :
                  pre \in SeqsUpTo(RunRunes, MaxRunLen) \ {<< >>},
                  kw \in {W_AND, W_OR, W_NOT},
                  post \in {<< >>, <<"x">>, W_OR}}
              \cup {<<"x", "y", "z">> \o W_NOT},
        rest \in {<< >>, <<W_OR, <<"a", "b", "c">> >>}}

ParseInputs == TokenInputs \cup ChainInputs \cup RunInputs

\* AST.Parse: boolean expressions over these leaves, resolved with the comparison parser
LeafPool ==
    {<< <<"x">>, <<">">>, <<"3">> >>,
     << <<"y">>, <<"=", "=">>, <<"5">> >>,
     << <<"z">>, <<"!", "=">>, <<"3">> >>,
     << <<"x", "y", "z">>, <<"=", "=">>, <<"5">> >>,
     << <<"x">>, <<">">>, <<"y">>, <<">">>, <<"z">> >>,
     << <<"x">> >>}

ResolveTokens ==
    LeafPool
    \cup {l1 \o <<W_AND>> \o l2 : l1 \in LeafPool, l2 \in LeafPool}
    \cup {l1 \o <<W_OR>> \o l2 : l1 \in LeafPool, l2 \in LeafPool}
    \cup {<<W_NOT, <<"(">> >> \o l1 \o << <<")">> >> : l1 \in LeafPool}
    \cup {l1 \o <<W_AND>> \o l2 \o <<W_OR>> \o l3 :
            l1 \in LeafPool, l2 \in LeafPool, l3 \in LeafPool}

ResolveInputs == {[str |-> JoinSp(ts), parser |-> "comp"] : ts \in ResolveTokens}

\* the comparison parser: every short sequence of these tokens, every chain of two
\* operators and every chain with its right part in parentheses
CompVocab == {<<"x">>, <<">">>, <<"<">>, <<"=", "=">>, <<"(">>, <<")">>}

CompChains ==
    {<< <<"x">>, o1, <<"y">>, o2, <<"z">> >> : o1 \in CompOperators, o2 \in CompOperators}

CompNested ==
    {<< <<"x">>, o1, <<"(">>, <<"y">>, o2, <<"3">>, <<")">> >> :
        o1 \in CompOperators, o2 \in CompOperators}

\* '(x > (7 == 5) < 12)' of TestParser_ParseError
CompExample ==
    << <<"(">>, <<"x">>, <<">">>, <<"(">>, <<"7">>, <<"=", "=">>, <<"5">>, <<")">>,
       <<"<">>, <<"1", "2">>, <<")">> >>

CompInputs ==
    {[toks |-> ts] :
        ts \in SeqsUpTo(CompVocab, MaxCompTokens) \cup CompChains \cup CompNested
               \cup {CompExample}}

\* interpreters: every table from two nodes to these outcomes
Nodes == {Unparsed(<< <<"x">> >>), Unparsed(<< <<"y">> >>)}

Outcomes ==
    {[val |-> TRUE, err |-> << >>],
     [val |-> FALSE, err |-> << >>],
     [val |-> FALSE, err |-> <<ErrUnknownAST>>],
     [val |-> FALSE, err |-> <<"wrapped", ErrUnknownAST>>],
     [val |-> TRUE, err |-> <<ErrEval>>]}

FallbackInputs ==
    {[primary |-> [name |-> "Primary", f |-> f1],
      secondary |-> [name |-> "Secondary", f |-> f2],
      node |-> n] :
        f1 \in [Nodes -> Outcomes], f2 \in [Nodes -> Outcomes], n \in Nodes}

\* Eval: every short sequence of these tokens and the expressions of TestParser_Eval,
\* under every assignment of booleans to some of the variables, and under no lookup
\* source at all
EvalVocab == {W_AND, W_OR, W_NOT, <<"(">>, <<")">>, <<"x">>, <<"y">>}

EvalExamples ==
    {<< <<"x">>, W_AND, <<"y">>, W_OR, <<"z">> >>,
     << <<"x">>, W_OR, <<"y">>, W_AND, <<"z">> >>,
     << W_NOT, <<"(">>, <<"x">>, W_OR, <<"y">>, <<")">>, W_AND, <<"z">> >>,
     << <<"x">>, <<"=", "=">>, <<"5">>, W_AND, <<"y">> >>}

Assignments(names) == UNION {[D -> BOOLEAN] : D \in SUBSET names}

EvalInputs ==
    {[str |-> JoinSp(ts), lookup |-> l] :
        ts \in SeqsUpTo(EvalVocab, MaxEvalTokens),
        l \in {VarInterpreter(m) : m \in Assignments({<<"x">>, <<"y">>})} \cup {NilLookup}}
    \cup
    {[str |-> JoinSp(ts), lookup |-> l] :
        ts \in EvalExamples,
        l \in {VarInterpreter(m) : m \in Assignments({<<"x">>, <<"y">>, <<"z">>})}
              \cup {NilLookup}}

\* WithCaseSensitive(false): the default surface strings and a mixed-case set, and
\* every short sequence of these words joined by single spaces, the inputs of
\* TestWithCaseSensitive and a few runs without spaces
MixedConfig ==
    [And |-> <<"A", "n", "d">>, Or |-> <<"o", "R">>, Not |-> W_NOT,
     OpenParen |-> <<"(">>, CloseParen |-> <<")">>]

FoldConfigs == {DefaultConfig, MixedConfig}

FoldVocab ==
    {W_AND, <<"a", "n", "d">>, <<"A", "n", "d">>, W_OR, <<"o", "r">>, W_NOT, <<"n", "o", "T">>,
     <<"(">>, <<")">>, <<"x">>, <<"X">>}

FoldExamples ==
    {<< <<"x">>, <<"=", "=">>, <<"6">>, <<"a", "n", "d">>, <<"y">>, <<"=", "=">>, <<"4">> >>,
     << <<"x">>, <<"=", "=">>, <<"6">>, W_AND, <<"y">>, <<"=", "=">>, <<"4">> >>,
     << <<"x">>, W_OR, <<"y">>, <<"a", "n", "d">>, <<"z">>, W_OR, <<"w">> >>}

FoldRuns ==
    {<<"X", "A", "N", "D">>, <<"A", "n", "d", "X">>, <<"N", "o", "t", "(", "X", ")">>,
     <<"x", " ", "O", "r", "X">>, <<"O", "R", "o", "r">>}

FoldInputs ==
    {[config |-> c, str |-> str] :
        c \in FoldConfigs,
        str \in {JoinSp(ts) : ts \in SeqsUpTo(FoldVocab, MaxFoldTokens) \cup FoldExamples}
                \cup FoldRuns}

\* AST.Parse twice: the expressions of ResolveInputs, resolved with one parser and
\* then again with another
ResolveTwiceInputs ==
    {[str |-> JoinSp(ts), first |-> p1, second |-> p2] :
        ts \in ResolveTokens, p1 \in {"lit", "comp"}, p2 \in {"lit", "comp", "none"}}

NoCall == [type |-> "none"]

Idle ==
    [i \in {1, 2} |-> [pc |-> "idle", str |-> << >>, stack |-> << >>, val |-> NilAST,
                       err |-> NoErr, result |-> << >>]]

(***************************************************************************)
(* The driver of the trie: Add calls in any order, then one lookup.        *)
(***************************************************************************)
InitTrie ==
    /\ trie = EmptyTrie
    /\ added = {}
    /\ op = "init"
    /\ arg = NoCall
    /\ ret = NoCall
    /\ tokens = << >>
    /\ curr = 0
    /\ calls = Idle

AddOp ==
    /\ op \in {"init", "Add"}
    /\ Cardinality(added) < MaxAdds
    /\ \E keyword \in TrieKeywords :
        /\ trie' = Add(trie, keyword)
        /\ added' = added \cup {keyword}
        /\ op' = "Add"
        /\ arg' = [keyword |-> keyword]
        /\ ret' = NoCall
    /\ UNCHANGED <<tokens, curr, calls>>

MatchOp ==
    /\ op \in {"init", "Add"}
    /\ \E stream \in Streams :
        /\ op' = "Match"
        /\ arg' = [stream |-> stream]
        /\ ret' = [matched |-> Match(trie, stream)]
    /\ UNCHANGED <<trie, added, tokens, curr, calls>>

ContainsOp ==
    /\ op \in {"init", "Add"}
    /\ \E str \in Streams :
        /\ op' = "Contains"
        /\ arg' = [str |-> str]
        /\ ret' = [contains |-> Contains(trie, str)]
    /\ UNCHANGED <<trie, added, tokens, curr, calls>>

NextTrie == AddOp \/ MatchOp \/ ContainsOp

SpecTrie == InitTrie /\ [][NextTrie]_vars

(***************************************************************************)
(* The driver of the parsers: one call on one input, chosen initially.     *)
(***************************************************************************)
Init ==
    /\ trie = EmptyTrie
    /\ added = {}
    /\ ret = NoCall
    /\ tokens = << >>
    /\ curr = 0
    /\ calls = Idle
    /\ \/ op = "NewParser" /\ arg \in {[config |-> c, caseInsensitive |-> ci] :
                                          c \in Configs, ci \in BOOLEAN}
       \/ op = "Tokenize" /\ arg \in {[str |-> s] : s \in TokenizeInputs}
       \/ op = "Parse" /\ arg \in ParseInputs
       \/ op = "Resolve" /\ arg \in ResolveInputs
       \/ op = "CompParse" /\ arg \in CompInputs
       \/ op = "WithFallback" /\ arg \in FallbackInputs
       \/ op = "Eval" /\ arg \in EvalInputs
       \/ op = "ParseFold" /\ arg \in FoldInputs
       \/ op = "ResolveTwice" /\ arg \in ResolveTwiceInputs

NewParserOp ==
    /\ op = "NewParser" /\ ret = NoCall
    /\ ret' = NewParser(arg.config, arg.caseInsensitive)
    /\ UNCHANGED <<trie, added, op, arg, tokens, curr, calls>>

TokenizeOp ==
    /\ op = "Tokenize" /\ ret = NoCall
    /\ ret' = [tokens |-> Tokenize(arg.str, "(", ")", TokenizeKeywords)]
    /\ UNCHANGED <<trie, added, op, arg, tokens, curr, calls>>

\* Parse on the default parser; the call leaves its tokens and cursor in the parser
ParseOp ==
    /\ op = "Parse" /\ ret = NoCall
    /\ \E r \in {Parse(NewParser(DefaultConfig, FALSE).p, arg.str)} :
          /\ ret' = [ast |-> r.ast, err |-> r.err]
          /\ tokens' = r.p.tokens
          /\ curr' = r.p.curr
    /\ UNCHANGED <<trie, added, op, arg, calls>>

\* a boolean Parse followed by ast.Parse(parser) on its tree
ResolveOp ==
    /\ op = "Resolve" /\ ret = NoCall
    /\ \E b \in {Parse(NewParser(DefaultConfig, FALSE).p, arg.str)} :
          /\ \/ /\ b.err # NoErr
                /\ ret' = [tree |-> NilAST, ast |-> NilAST, err |-> b.err]
             \/ /\ b.err = NoErr
                /\ \E r \in {ASTParse(b.ast, arg.parser)} :
                      ret' = [tree |-> b.ast, ast |-> r.ast, err |-> r.err]
          /\ tokens' = b.p.tokens
          /\ curr' = b.p.curr
    /\ UNCHANGED <<trie, added, op, arg, calls>>

CompParseOp ==
    /\ op = "CompParse" /\ ret = NoCall
    /\ ret' = compParse(arg.toks)
    /\ UNCHANGED <<trie, added, op, arg, tokens, curr, calls>>

WithFallbackOp ==
    /\ op = "WithFallback" /\ ret = NoCall
    /\ ret' = WithFallback(arg.primary, arg.secondary, arg.node)
    /\ UNCHANGED <<trie, added, op, arg, tokens, curr, calls>>

\* a boolean Parse on the default parser followed by Eval of its tree
EvalOp ==
    /\ op = "Eval" /\ ret = NoCall
    /\ \E b \in {Parse(NewParser(DefaultConfig, FALSE).p, arg.str)} :
          /\ \/ /\ b.err # NoErr
                /\ ret' = [tree |-> NilAST, parsed |-> b.err, val |-> FALSE,
                           err |-> NoErr, trace |-> << >>]
             \/ /\ b.err = NoErr
                /\ \E e \in {Eval(b.ast, arg.lookup)} :
                      ret' = [tree |-> b.ast, parsed |-> NoErr, val |-> e.val,
                              err |-> e.err, trace |-> e.trace]
          /\ tokens' = b.p.tokens
          /\ curr' = b.p.curr
    /\ UNCHANGED <<trie, added, op, arg, calls>>

\* Parse on a parser constructed with WithCaseSensitive(false)
ParseFoldOp ==
    /\ op = "ParseFold" /\ ret = NoCall
    /\ \E r \in {Parse(NewParser(arg.config, TRUE).p, arg.str)} :
          /\ ret' = [ast |-> r.ast, err |-> r.err]
          /\ tokens' = r.p.tokens
          /\ curr' = r.p.curr
    /\ UNCHANGED <<trie, added, op, arg, calls>>

\* a boolean Parse, ast.Parse(first) on its tree and ast.Parse(second) on the result
ResolveTwiceOp ==
    /\ op = "ResolveTwice" /\ ret = NoCall
    /\ \E b \in {Parse(NewParser(DefaultConfig, FALSE).p, arg.str)} :
          /\ \/ /\ b.err # NoErr
                /\ ret' = [tree |-> NilAST, parsed |-> b.err, once |-> NilAST, err1 |-> NoErr,
                           twice |-> NilAST, err2 |-> NoErr]
             \/ /\ b.err = NoErr
                /\ \E r1 \in {ASTParse(b.ast, arg.first)} :
                      \E r2 \in {ASTParse(r1.ast, arg.second)} :
                         ret' = [tree |-> b.ast, parsed |-> NoErr, once |-> r1.ast,
                                 err1 |-> r1.err, twice |-> r2.ast, err2 |-> r2.err]
          /\ tokens' = b.p.tokens
          /\ curr' = b.p.curr
    /\ UNCHANGED <<trie, added, op, arg, calls>>

Next ==
    \/ NewParserOp
    \/ TokenizeOp
    \/ ParseOp
    \/ ResolveOp
    \/ CompParseOp
    \/ WithFallbackOp
    \/ EvalOp
    \/ ParseFoldOp
    \/ ResolveTwiceOp

Spec == Init /\ [][Next]_vars

(***************************************************************************)
(* Two callers of Parse on one shared default parser.  Parse keeps its     *)
(* token buffer and its cursor in the Parser struct (fields tokens and     *)
(* curr), so they are the variables tokens and curr here; a caller's own   *)
(* state is its position in Parse (pc), the frames of the recursive        *)
(* descent it is in (stack) and its locals.  A step is one statement, or   *)
(* one call of match, of bool.go.  An index past the end of the tokens is  *)
(* a run-time panic, recorded as the call's outcome.                       *)
(***************************************************************************)
Callers == {1, 2}

SharedParser == NewParser(DefaultConfig, FALSE).p

ConcInputs ==
    {JoinSp(ts) : ts \in {<< <<"x">> >>,
                          << <<"x">>, W_AND, <<"y">> >>,
                          << <<"x">>, W_OR, <<"y">> >>,
                          <<W_NOT, <<"x">> >>,
                          << <<"(">>, <<"x">>, <<")">> >>,
                          << <<"x">>, <<")">> >>}}

Frame(f, lhs) == [f |-> f, lhs |-> lhs]

Push(stack, frames) == stack \o frames

Top(stack) == stack[Len(stack)]

Pop(stack) == SubSeq(stack, 1, Len(stack) - 1)

\* the frames parseExpr opens before it reaches parseNot
EnterExpr == <<Frame("parseAnd", NilAST), Frame("parseOr", NilAST)>>

\* Parser.match on the shared fields: "yes" advances the cursor
MatchNow(token) ==
    IF curr = Len(tokens) THEN "no"
    ELSE IF curr > Len(tokens) THEN "panic"
    ELSE IF tokens[curr + 1] = SharedParser.config[token] THEN "yes"
    ELSE "no"

Finished(c, ast, err) == [c EXCEPT !.pc = "done", !.val = ast, !.err = err, !.stack = << >>]

InitConc ==
    /\ trie = EmptyTrie
    /\ added = {}
    /\ op = "init"
    /\ arg = NoCall
    /\ ret = NoCall
    /\ tokens = << >>
    /\ curr = 0
    /\ calls = Idle

\* a caller enters Parse(str)
ParseCall(self) ==
    /\ calls[self].pc = "idle"
    /\ \E str \in ConcInputs :
        calls' = [calls EXCEPT ![self].pc = "tokenize", ![self].str = str]
    /\ UNCHANGED <<trie, added, op, arg, ret, tokens, curr>>

\* p.tokens = p.tokenize(str)
ParseTokenize(self) ==
    /\ calls[self].pc = "tokenize"
    /\ tokens' = tokenize(SharedParser, calls[self].str)
    /\ calls' = [calls EXCEPT ![self].pc = "reset"]
    /\ UNCHANGED <<trie, added, op, arg, ret, curr>>

\* p.curr = 0, then parseExpr down to parseNot
ParseReset(self) ==
    /\ calls[self].pc = "reset"
    /\ curr' = 0
    /\ calls' = [calls EXCEPT ![self].pc = "parseNot",
                              ![self].stack = <<Frame("Parse", NilAST)>> \o EnterExpr]
    /\ UNCHANGED <<trie, added, op, arg, ret, tokens>>

\* parseNot: p.match(Not)
StepNot(self) ==
    /\ calls[self].pc = "parseNot"
    /\ LET c == calls[self]
           m == MatchNow("Not")
       IN /\ curr' = IF m = "yes" THEN curr + 1 ELSE curr
          /\ calls' = [calls EXCEPT ![self] =
                IF m = "panic" THEN Finished(c, NilAST, "panic")
                ELSE IF m = "yes"
                     THEN [c EXCEPT !.pc = "parseParens",
                                    !.stack = Push(@, <<Frame("parseNot", NilAST)>>)]
                     ELSE [c EXCEPT !.pc = "parseParens"]]
    /\ UNCHANGED <<trie, added, op, arg, ret, tokens>>

\* parseParens: p.match(OpenParen), then parseExpr or parseRest
StepParens(self) ==
    /\ calls[self].pc = "parseParens"
    /\ LET c == calls[self]
           m == MatchNow("OpenParen")
       IN /\ curr' = IF m = "yes" THEN curr + 1 ELSE curr
          /\ calls' = [calls EXCEPT ![self] =
                IF m = "panic" THEN Finished(c, NilAST, "panic")
                ELSE IF m = "yes"
                     THEN [c EXCEPT !.pc = "parseNot",
                                    !.stack = Push(@, <<Frame("parseParens", NilAST)>> \o EnterExpr)]
                     ELSE [c EXCEPT !.pc = "parseRest", !.result = << >>]]
    /\ UNCHANGED <<trie, added, op, arg, ret, tokens>>

\* parseRest: the loop condition, and the return once it is false
StepRestCond(self) ==
    /\ calls[self].pc = "parseRest"
    /\ LET c == calls[self]
       IN calls' = [calls EXCEPT ![self] =
            IF curr < Len(tokens) /\ ~isKeyword(SharedParser, tokens[curr + 1])
            THEN [c EXCEPT !.pc = "restBody"]
            ELSE IF c.result = << >>
                 THEN [c EXCEPT !.pc = "return", !.val = NilAST, !.err = ErrParse]
                 ELSE [c EXCEPT !.pc = "return", !.val = Unparsed(c.result)]]
    /\ UNCHANGED <<trie, added, op, arg, ret, tokens, curr>>

\* parseRest: result = append(result, p.peek()); p.curr++
StepRestBody(self) ==
    /\ calls[self].pc = "restBody"
    /\ LET c == calls[self]
       IN IF curr >= Len(tokens)
          THEN /\ calls' = [calls EXCEPT ![self] = Finished(c, NilAST, "panic")]
               /\ curr' = curr
          ELSE /\ calls' = [calls EXCEPT ![self].pc = "parseRest",
                                         ![self].result = Append(@, tokens[curr + 1])]
               /\ curr' = curr + 1
    /\ UNCHANGED <<trie, added, op, arg, ret, tokens>>

Returning(self, f) ==
    /\ calls[self].pc = "return"
    /\ calls[self].err = NoErr
    /\ Top(calls[self].stack).f = f

\* an error returns through every frame to Parse, which returns it
ReturnErr(self) ==
    /\ calls[self].pc = "return"
    /\ calls[self].err # NoErr
    /\ calls' = [calls EXCEPT ![self] = Finished(calls[self], NilAST, calls[self].err)]
    /\ UNCHANGED <<trie, added, op, arg, ret, tokens, curr>>

\* parseNot after parseParens: the UnaryExpr
ReturnNot(self) ==
    /\ Returning(self, "parseNot")
    /\ calls' = [calls EXCEPT ![self].stack = Pop(@),
                              ![self].val = UnaryExpr(OpNot, @)]
    /\ UNCHANGED <<trie, added, op, arg, ret, tokens, curr>>

\* a frame that holds a left operand is waiting for its right one
HasLeft(self) == Len(calls[self].stack) > 0 /\ Top(calls[self].stack).lhs # NilAST

\* parseOr or parseAnd after its left operand: p.match(Or) or p.match(And), then
\* the right operand or the return of the left one
ReturnLeft(self, f, token) ==
    /\ Returning(self, f)
    /\ ~HasLeft(self)
    /\ LET c == calls[self]
           m == MatchNow(token)
       IN /\ curr' = IF m = "yes" THEN curr + 1 ELSE curr
          /\ calls' = [calls EXCEPT ![self] =
                IF m = "panic" THEN Finished(c, NilAST, "panic")
                ELSE IF m = "yes"
                     THEN [c EXCEPT !.pc = "parseNot",
                                    !.stack = Push(Pop(@),
                                        <<Frame(f, c.val)>>
                                        \o (IF f = "parseAnd" THEN EnterExpr
                                            ELSE <<Frame("parseOr", NilAST)>>))]
                     ELSE [c EXCEPT !.stack = Pop(@)]]
    /\ UNCHANGED <<trie, added, op, arg, ret, tokens>>

ReturnOr(self) == ReturnLeft(self, "parseOr", "Or")

ReturnAnd(self) == ReturnLeft(self, "parseAnd", "And")

\* parseOr or parseAnd after its right operand: the BinExpr
ReturnRight(self) ==
    /\ calls[self].pc = "return"
    /\ calls[self].err = NoErr
    /\ HasLeft(self)
    /\ LET c == calls[self]
           top == Top(c.stack)
       IN calls' = [calls EXCEPT ![self].stack = Pop(@),
                                 ![self].val = BinExpr(top.lhs, c.val,
                                     IF top.f = "parseAnd" THEN OpAnd ELSE OpOr)]
    /\ UNCHANGED <<trie, added, op, arg, ret, tokens, curr>>

\* parseParens after parseExpr: p.match(CloseParen)
ReturnParens(self) ==
    /\ Returning(self, "parseParens")
    /\ LET c == calls[self]
           m == MatchNow("CloseParen")
       IN /\ curr' = IF m = "yes" THEN curr + 1 ELSE curr
          /\ calls' = [calls EXCEPT ![self] =
                IF m = "panic" THEN Finished(c, NilAST, "panic")
                ELSE IF m = "yes"
                     THEN [c EXCEPT !.stack = Pop(@)]
                     ELSE Finished(c, NilAST, ErrParse)]
    /\ UNCHANGED <<trie, added, op, arg, ret, tokens>>

\* Parse after parseExpr: the check for tokens left over, whose message reads
\* p.tokens[p.curr]
ReturnParse(self) ==
    /\ Returning(self, "Parse")
    /\ LET c == calls[self]
       IN calls' = [calls EXCEPT ![self] =
            IF curr = Len(tokens) THEN Finished(c, c.val, NoErr)
            ELSE IF curr > Len(tokens) THEN Finished(c, NilAST, "panic")
            ELSE Finished(c, NilAST, ErrParse)]
    /\ UNCHANGED <<trie, added, op, arg, ret, tokens, curr>>

NextConc ==
    \E self \in Callers :
        \/ ParseCall(self)
        \/ ParseTokenize(self)
        \/ ParseReset(self)
        \/ StepNot(self)
        \/ StepParens(self)
        \/ StepRestCond(self)
        \/ StepRestBody(self)
        \/ ReturnErr(self)
        \/ ReturnNot(self)
        \/ ReturnOr(self)
        \/ ReturnAnd(self)
        \/ ReturnRight(self)
        \/ ReturnParens(self)
        \/ ReturnParse(self)

SpecConc == InitConc /\ [][NextConc]_vars

(***************************************************************************)
(* C1: Match(stream) is the longest added keyword that is a prefix of      *)
(* stream, and the empty string when no added keyword is a prefix of it.   *)
(***************************************************************************)
PrefixKeywords(stream) == {k \in added : IsPrefix(k, stream)}

LongestPrefixKeyword(stream) ==
    IF PrefixKeywords(stream) = {}
    THEN << >>
    ELSE CHOOSE k \in PrefixKeywords(stream) :
            \A k2 \in PrefixKeywords(stream) : Len(k2) <= Len(k)

C1_MatchLongest ==
    op = "Match" => ret.matched = LongestPrefixKeyword(arg.stream)

\* '<' and '<=' are both added and the stream starts with '<='
C1_Witness ==
    /\ op = "Match"
    /\ {<<"<">>, <<"<", "=">>} \subseteq added
    /\ IsPrefix(<<"<", "=">>, arg.stream)
    /\ ret.matched = <<"<", "=">>

(***************************************************************************)
(* C2: a parenthesis-free chain of operands joined by AND and OR parses to *)
(* the right-nested AND chain of its groups, the groups being the runs of  *)
(* operands between two ANDs, each a right-nested OR chain.                *)
(***************************************************************************)
Leaf(i, wide) == Unparsed(Operand(i, wide))

\* the OR chain of operands i..j
RECURSIVE OrChain(_, _, _)
OrChain(i, j, wide) ==
    IF i = j THEN Leaf(i, wide) ELSE BinExpr(Leaf(i, wide), OrChain(i + 1, j, wide), OpOr)

\* the last operand of the group that starts at operand i
GroupEnd(ops, i) ==
    IF \E j \in i..Len(ops) : ops[j] = W_AND
    THEN CHOOSE j \in i..Len(ops) : ops[j] = W_AND /\ \A k \in i..(j - 1) : ops[k] # W_AND
    ELSE Len(ops) + 1

RECURSIVE AndOfGroups(_, _, _)
AndOfGroups(ops, i, wide) ==
    LET j == GroupEnd(ops, i)
    IN IF j > Len(ops)
       THEN OrChain(i, j, wide)
       ELSE BinExpr(OrChain(i, j, wide), AndOfGroups(ops, j + 1, wide), OpAnd)

Done(o) == op = o /\ ret # NoCall

C2_AndOfOrGroups ==
    (Done("Parse") /\ arg.family = "chain") =>
        /\ ret.err = NoErr
        /\ ret.ast = AndOfGroups(arg.ops, 1, arg.wide)

U(name) == Unparsed(<< <<name>> >>)

\* 'x OR y AND z OR w', 'x AND y OR z AND w' and 'a AND b AND c', with the operands
\* called a, b, c, d
C2_Examples ==
    (Done("Parse") /\ arg.family = "chain" /\ ~arg.wide) =>
        /\ arg.ops = <<W_OR, W_AND, W_OR>> =>
            ret.ast = BinExpr(BinExpr(U("a"), U("b"), OpOr), BinExpr(U("c"), U("d"), OpOr), OpAnd)
        /\ arg.ops = <<W_AND, W_OR, W_AND>> =>
            ret.ast = BinExpr(U("a"), BinExpr(BinExpr(U("b"), U("c"), OpOr), U("d"), OpAnd), OpAnd)
        /\ arg.ops = <<W_AND, W_AND>> =>
            ret.ast = BinExpr(U("a"), BinExpr(U("b"), U("c"), OpAnd), OpAnd)

C2_ParseChains == C2_AndOfOrGroups /\ C2_Examples

C2_Witness ==
    /\ Done("Parse") /\ arg.family = "chain"
    /\ arg.ops = <<W_OR, W_AND, W_OR>>
    /\ ret.ast.Op = OpAnd /\ ret.ast.LHS.Op = OpOr /\ ret.ast.RHS.Op = OpOr

(***************************************************************************)
(* C6: NewParser returns a configuration error, and no parser, exactly     *)
(* when a parenthesis string is not one codepoint, the two parenthesis     *)
(* strings are equal, or two configured strings are equal under the        *)
(* active case sensitivity; every other configuration constructs.          *)
(***************************************************************************)
Folded(a) == IF a.caseInsensitive THEN [t \in Token |-> ToLower(a.config[t])] ELSE a.config

Collides(a) == \E t1, t2 \in Token : t1 # t2 /\ Folded(a)[t1] = Folded(a)[t2]

\* Len counts codepoints
BadConfig(a) ==
    \/ Len(a.config.OpenParen) # 1
    \/ Len(a.config.CloseParen) # 1
    \/ a.config.OpenParen = a.config.CloseParen
    \/ Collides(a)

C6_ConfigErrorIff ==
    Done("NewParser") =>
        /\ BadConfig(arg) => (ret.err = ErrConfig /\ ret.p = NilParser)
        /\ ~BadConfig(arg) => (ret.err = NoErr /\ ret.p # NilParser)

(***************************************************************************)
(* C7: Parse returns ErrParse and no tree for every input with an          *)
(* unmatched open parenthesis, an unmatched close parenthesis, a NOT with  *)
(* nothing following, an operand position holding no token, or tokens left *)
(* over after the top-level expression; it fails in no other way.          *)
(***************************************************************************)
RECURSIVE Depth(_, _)
Depth(toks, k) ==
    IF k = 0
    THEN 0
    ELSE Depth(toks, k - 1)
         + (IF toks[k] = <<"(">> THEN 1 ELSE IF toks[k] = <<")">> THEN -1 ELSE 0)

UnmatchedOpen(toks) == Depth(toks, Len(toks)) > 0

UnmatchedClose(toks) == \E k \in 1..Len(toks) : Depth(toks, k) < 0

NotAtEnd(toks) == Len(toks) > 0 /\ toks[Len(toks)] = W_NOT

IsOperandToken(tok) == tok \notin {W_AND, W_OR, W_NOT, <<"(">>, <<")">>}

\* what follows position k (0: the start), "end" after the last token
Following(toks, k) == IF k = Len(toks) THEN <<"end">> ELSE toks[k + 1]

\* an operand is expected at the start and after AND, OR, NOT and '('
EmptyOperand(toks) ==
    \E k \in 0..Len(toks) :
        \/ /\ k = 0 \/ toks[k] \in {W_AND, W_OR, <<"(">>}
           /\ Following(toks, k) \in {W_AND, W_OR, <<")">>, <<"end">>}
        \/ /\ k > 0 /\ toks[k] = W_NOT
           /\ Following(toks, k) \in {W_AND, W_OR, W_NOT, <<")">>, <<"end">>}

\* a complete operand followed by the start of another one
LeftOver(toks) ==
    \E k \in 1..(Len(toks) - 1) :
        \/ IsOperandToken(toks[k]) /\ toks[k + 1] \in {W_NOT, <<"(">>}
        \/ toks[k] = <<")">> /\ (IsOperandToken(toks[k + 1]) \/ toks[k + 1] \in {W_NOT, <<"(">>})

Malformed(toks) ==
    \/ UnmatchedOpen(toks)
    \/ UnmatchedClose(toks)
    \/ NotAtEnd(toks)
    \/ EmptyOperand(toks)
    \/ LeftOver(toks)

C7_MalformedIsErrParse ==
    (Done("Parse") /\ arg.family = "tokens") =>
        /\ Malformed(arg.toks) => (ret.err = ErrParse /\ ret.ast = NilAST)
        /\ ret.err \in {NoErr, ErrParse}
        /\ ret.err = NoErr => ret.ast # NilAST

\* every other input parses: the five cases are all the ways Parse fails
C7_OnlyMalformedFails ==
    (Done("Parse") /\ arg.family = "tokens" /\ ~Malformed(arg.toks)) => ret.err = NoErr

\* 'x )' : the close parenthesis is left over after the top-level expression
C7_Witness ==
    /\ Done("Parse") /\ arg.family = "tokens"
    /\ arg.toks = << <<"x">>, <<")">> >>
    /\ curr = 1 /\ Len(tokens) = 2
    /\ ret.err = ErrParse

(***************************************************************************)
(* C8: a keyword is split off wherever it starts, also directly after      *)
(* literal characters, and the longest keyword is taken: with '>' and '>=' *)
(* the keywords, Tokenize returns what matching the keyword trie at every  *)
(* position returns, and 'x>=3' gives 'x', '>=', '3'.                      *)
(***************************************************************************)
C8_KeywordSplitEverywhere ==
    Done("Tokenize") =>
        /\ ret.tokens = TrieTokenize(arg.str, "(", ")", AddAll(EmptyTrie, TokenizeKeywords))
        /\ arg.str = <<"x", ">", "=", "3">> => ret.tokens = << <<"x">>, <<">", "=">>, <<"3">> >>

(***************************************************************************)
(* C3: resolving a composite boolean tree with the comparison parser       *)
(* replaces every Unparsed leaf under it by the comparison parser's result *)
(* for that leaf's tokens and keeps the boolean operators and their shape; *)
(* 'x > 3 AND y == 5 OR z != 3' becomes                                    *)
(* AND(GREATER(x,3), OR(EQUAL(y,5), NOT_EQUAL(z,3))) with no error.        *)
(***************************************************************************)
IsComposite(ast) == ast.type \in {"BinExpr", "UnaryExpr"}

RECURSIVE Leaves(_)
Leaves(ast) ==
    IF ast.type = "Unparsed" THEN {ast.Contents}
    ELSE IF ast.type = "UnaryExpr" THEN Leaves(ast.Expr)
    ELSE Leaves(ast.LHS) \cup Leaves(ast.RHS)

\* after is before with each leaf replaced by the comparison parser's tree for it
RECURSIVE LeavesReplaced(_, _)
LeavesReplaced(before, after) ==
    IF before.type = "Unparsed"
    THEN after = compParse(before.Contents).ast
    ELSE IF before.type = "UnaryExpr"
         THEN /\ after.type = "UnaryExpr" /\ after.Op = before.Op
              /\ LeavesReplaced(before.Expr, after.Expr)
         ELSE /\ after.type = "BinExpr" /\ after.Op = before.Op
              /\ LeavesReplaced(before.LHS, after.LHS)
              /\ LeavesReplaced(before.RHS, after.RHS)

BoolCompExample ==
    JoinSp(<< <<"x">>, <<">">>, <<"3">>, W_AND, <<"y">>, <<"=", "=">>, <<"5">>, W_OR,
              <<"z">>, <<"!", "=">>, <<"3">> >>)

BoolCompExpected ==
    BinExpr(OrdinalExpr(U("x"), U("3"), OpGreater),
            BinExpr(EqualExpr(U("y"), U("5"), OpEqual),
                    EqualExpr(U("z"), U("3"), OpNotEqual), OpOr),
            OpAnd)

C9_FallbackOnlyOnUnknown ==
    Done("WithFallback") =>
        LET a == arg.primary.f[arg.node]
            s == arg.secondary.f[arg.node]
        IN IF ErrUnknownAST \in {a.err[k] : k \in 1..Len(a.err)}
           THEN /\ ret.trace = << <<"Primary", arg.node>>, <<"Secondary", arg.node>> >>
                /\ ret.val = s.val /\ ret.err = s.err
           ELSE /\ ret.trace = << <<"Primary", arg.node>> >>
                /\ ret.val = a.val /\ ret.err = a.err

\* Primary fails with another error, Secondary would have succeeded and is not called
C9_Witness ==
    /\ Done("WithFallback")
    /\ arg.primary.f[arg.node].err = <<ErrEval>>
    /\ arg.secondary.f[arg.node].err = << >>
    /\ ret.err = <<ErrEval>>
    /\ Len(ret.trace) = 1

(***************************************************************************)
(* C10: the comparison parser applies at most one operator at each of the  *)
(* equality and ordinal levels: a chain of two operators of one level is a *)
(* parse error, and the chain with its right part in parentheses parses to *)
(* nested nodes with the operands in their written order.                  *)
(***************************************************************************)
OrdinalTokens ==
    {CompConfig.GreaterOrEqual, CompConfig.Greater, CompConfig.Less, CompConfig.LessOrEqual}

EqualTokens == {CompConfig.Equal, CompConfig.NotEqual}

SameLevel(o1, o2) ==
    \/ o1 \in OrdinalTokens /\ o2 \in OrdinalTokens
    \/ o1 \in EqualTokens /\ o2 \in EqualTokens

CompNode(o, lhs, rhs) ==
    IF o \in EqualTokens THEN EqualExpr(lhs, rhs, EqualOp(o)) ELSE OrdinalExpr(lhs, rhs, OrdinalOp(o))

Count2(toks, S) == Cardinality({k \in 1..Len(toks) : toks[k] \in S})

C10_OneOperatorPerLevel ==
    Done("CompParse") =>
        /\ ret.err \in {NoErr, ErrParse}
        /\ (arg.toks \in CompChains /\ SameLevel(arg.toks[2], arg.toks[4])) =>
              (ret.err = ErrParse /\ ret.ast = NilAST)
        /\ arg.toks \in CompNested =>
              /\ ret.err = NoErr
              /\ ret.ast = CompNode(arg.toks[2], U("x"), CompNode(arg.toks[5], U("y"), U("3")))
        /\ arg.toks = CompExample => ret.err = ErrParse
        \* without parentheses a parse applies at most one equality operator, and at
        \* most one ordinal operator on each side of it
        /\ (ret.err = NoErr /\ Count2(arg.toks, {<<"(">>, <<")">>}) = 0) =>
              /\ Count2(arg.toks, EqualTokens) <= 1
              /\ Count2(arg.toks, OrdinalTokens) <= 1 + Count2(arg.toks, EqualTokens)

\* 'x > y > z': the second '>' is left unconsumed
C10_Witness ==
    /\ Done("CompParse")
    /\ arg.toks = << <<"x">>, <<">">>, <<"y">>, <<">">>, <<"z">> >>
    /\ ret.err = ErrParse

(***************************************************************************)
(* C5: two Parse calls running concurrently on the same parser do not      *)
(* interfere: each returns the tree or error it returns when run alone.    *)
(***************************************************************************)
Alone(str) == Parse(SharedParser, str)

C5_NoInterference ==
    \A self \in Callers :
        calls[self].pc = "done" =>
            /\ calls[self].val = Alone(calls[self].str).ast
            /\ calls[self].err = Alone(calls[self].str).err

\* a call that runs while the other caller has not entered Parse returns what the
\* sequential Parse returns
C5_AloneAgrees ==
    (calls[1].pc = "done" /\ calls[2].pc = "idle") =>
        /\ calls[1].val = Alone(calls[1].str).ast
        /\ calls[1].err = Alone(calls[1].str).err

(***************************************************************************)
(* C11: for a boolean tree and variables that define all its leaves, Eval  *)
(* returns the truth value of the tree, with AND as conjunction, OR as     *)
(* disjunction and NOT as negation, and looks up exactly the leaves read   *)
(* before the value is decided (the right operand of AND is not evaluated  *)
(* when the left is false, that of OR when the left is true); 'x AND y OR  *)
(* z' is x AND (y OR z): true for x, z true and y false, false for x false *)
(* and y, z true; Eval with a nil lookup source returns ErrEval.           *)
(***************************************************************************)
RECURSIVE Truth(_, _)
Truth(ast, m) ==
    IF ast.type = "Unparsed" THEN m[ast.Contents[1]]
    ELSE IF ast.type = "UnaryExpr" THEN ~Truth(ast.Expr, m)
    ELSE IF ast.Op = OpAnd THEN Truth(ast.LHS, m) /\ Truth(ast.RHS, m)
    ELSE Truth(ast.LHS, m) \/ Truth(ast.RHS, m)

DefinesAll(ast, m) ==
    \A c \in Leaves(ast) : Len(c) = 1 /\ c[1] \in DOMAIN m

\* the names of the leaves read, in order, until the value is decided
RECURSIVE Read(_, _)
Read(ast, m) ==
    IF ast.type = "Unparsed" THEN <<ast.Contents[1]>>
    ELSE IF ast.type = "UnaryExpr" THEN Read(ast.Expr, m)
    ELSE IF Truth(ast.LHS, m) = (ast.Op = OpOr)
         THEN Read(ast.LHS, m)
         ELSE Read(ast.LHS, m) \o Read(ast.RHS, m)

EvalExample == JoinSp(<< <<"x">>, W_AND, <<"y">>, W_OR, <<"z">> >>)

VarsOf(x, y, z) ==
    [n \in {<<"x">>, <<"y">>, <<"z">>} |->
        IF n = <<"x">> THEN x ELSE IF n = <<"y">> THEN y ELSE z]

C11_EvalTruth ==
    (Done("Eval") /\ ret.parsed = NoErr) =>
        /\ arg.lookup = NilLookup => ret.err = ErrEval
        /\ (arg.lookup # NilLookup /\ DefinesAll(ret.tree, arg.lookup.vars)) =>
              /\ ret.err = NoErr
              /\ ret.val = Truth(ret.tree, arg.lookup.vars)
              /\ ret.trace = Read(ret.tree, arg.lookup.vars)
        /\ arg.str = EvalExample =>
              /\ ret.tree = BinExpr(U("x"), BinExpr(U("y"), U("z"), OpOr), OpAnd)
              /\ arg.lookup = VarInterpreter(VarsOf(TRUE, FALSE, TRUE)) =>
                    ret.err = NoErr /\ ret.val = TRUE
              /\ arg.lookup = VarInterpreter(VarsOf(FALSE, TRUE, TRUE)) =>
                    ret.err = NoErr /\ ret.val = FALSE

\* 'x AND y OR z' with x false: false, and only x was looked up
C11_Witness ==
    /\ Done("Eval")
    /\ arg.str = EvalExample
    /\ arg.lookup = VarInterpreter(VarsOf(FALSE, TRUE, TRUE))
    /\ ret.parsed = NoErr /\ ret.err = NoErr
    /\ ret.val = FALSE
    /\ ret.trace = << <<"x">> >>

(***************************************************************************)
(* C12: on a parser constructed with WithCaseSensitive(false) the surface  *)
(* strings and the whole input are case-folded before scanning: Parse(s)   *)
(* returns what Parse of the lower-cased s returns, a keyword is           *)
(* recognised in any letter case, and 'x == 6 and y == 4' and 'x == 6 AND  *)
(* y == 4' both give AND(x == 6, y == 4).                                  *)
(***************************************************************************)
FoldParser(c) == NewParser(c, TRUE).p

\* the word w with its letters in any case is the keyword k of the configuration
IsKeywordAnyCase(c, w) == \E t \in {"And", "Or", "Not"} : ToLower(w) = ToLower(c[t])

FoldLeft == << <<"x">>, <<"=", "=">>, <<"6">> >>

FoldRight == << <<"y">>, <<"=", "=">>, <<"4">> >>

FoldExpected == BinExpr(Unparsed(FoldLeft), Unparsed(FoldRight), OpAnd)

C12_CaseFolded ==
    Done("ParseFold") =>
        /\ ret.ast = Parse(FoldParser(arg.config), ToLower(arg.str)).ast
        /\ ret.err = Parse(FoldParser(arg.config), ToLower(arg.str)).err
        /\ \A k \in 1..Len(tokens) :
              \/ tokens[k] \in {<<"(">>, <<")">>}
              \/ IsKeywordAnyCase(arg.config, tokens[k]) <=>
                    tokens[k] \in {FoldParser(arg.config).config[t] : t \in {"And", "Or", "Not"}}
        /\ arg.str \in {JoinSp(FoldLeft \o <<w>> \o FoldRight) : w \in {W_AND, <<"a", "n", "d">>}}
              => ret.err = NoErr /\ ret.ast = FoldExpected

\* 'x AND X' on the mixed-case configuration: AND is the operator, X is the leaf x
C12_Witness ==
    /\ Done("ParseFold")
    /\ arg.config = MixedConfig
    /\ arg.str = JoinSp(<< <<"x">>, W_AND, <<"X">> >>)
    /\ ret.err = NoErr
    /\ ret.ast = BinExpr(U("x"), U("x"), OpAnd)

(***************************************************************************)
(* C13: composition is idempotent once no Unparsed leaf remains: when the  *)
(* leaves of a tree have been resolved with a parser whose results hold no *)
(* Unparsed node, resolving the result again, with any parser, returns no  *)
(* error and leaves the tree as it is.                                     *)
(***************************************************************************)
RECURSIVE HasUnparsed(_)
HasUnparsed(ast) ==
    IF ast.type = "Unparsed" THEN TRUE
    ELSE IF ast.type = "Literal" THEN FALSE
    ELSE IF ast.type = "UnaryExpr" THEN HasUnparsed(ast.Expr)
    ELSE HasUnparsed(ast.LHS) \/ HasUnparsed(ast.RHS)

ResolvedOnce ==
    /\ Done("ResolveTwice")
    /\ ret.parsed = NoErr
    /\ ret.err1 = NoErr
    /\ ~HasUnparsed(ret.once)

C14_ContainsIffAdded ==
    op = "Contains" => (ret.contains <=> arg.str \in added)

\* the same for the strings that are not empty
C14_ContainsNonEmpty ==
    (op = "Contains" /\ arg.str # << >>) => (ret.contains <=> arg.str \in added)

\* the empty string is reported as contained though it was never added
C14_EmptyContained ==
    (op = "Contains" /\ arg.str = << >>) => ret.contains

(***************************************************************************)
(* C15: in the boolean parser a keyword that occurs in a run of characters *)
(* without whitespace or parentheses, after other characters, is not split *)
(* off: the run is one literal token; 'xyzNOT OR abc' parses to            *)
(* OR(Unparsed[xyzNOT], Unparsed[abc]).                                    *)
(***************************************************************************)
DefaultKeywords == {W_AND, W_OR, W_NOT}

\* the run begins with a keyword
LeadingKeyword(r) == \E k \in DefaultKeywords : IsPrefix(k, r)

RunExample == [family |-> "run", run |-> <<"x", "y", "z">> \o W_NOT,
               toks |-> << <<"x", "y", "z">> \o W_NOT, W_OR, <<"a", "b", "c">> >>,
               str |-> JoinSp(<< <<"x", "y", "z">> \o W_NOT, W_OR, <<"a", "b", "c">> >>)]

RunExampleParsed ==
    arg = RunExample =>
        /\ ret.err = NoErr
        /\ ret.ast = BinExpr(Unparsed(<< <<"x", "y", "z">> \o W_NOT >>),
                             Unparsed(<< <<"a", "b", "c">> >>), OpOr)

\* every run holding a keyword after other characters is a single token
C15_EmbeddedKeywordLiteral ==
    (Done("Parse") /\ arg.family = "run") =>
        /\ tokens = arg.toks
        /\ RunExampleParsed

\* C15, for the runs the scanner leaves whole: a keyword is recognised only when the
\* characters pending since the last token, whitespace or parenthesis spell exactly
\* that keyword, so a run that does not begin with a keyword is a single token
\* whatever keyword it holds further on, and a run that begins with one is split
\* after it
C15_EmbeddedKeywordLiteralUnlessLeading ==
    (Done("Parse") /\ arg.family = "run") =>
        /\ ~LeadingKeyword(arg.run) => tokens = arg.toks
        /\ LeadingKeyword(arg.run) =>
              /\ tokens[1] \in DefaultKeywords
              /\ IsPrefix(tokens[1], arg.run)
              /\ tokens # arg.toks
        /\ RunExampleParsed

\* 'xyzNOT OR abc'
C15_Witness ==
    /\ Done("Parse")
    /\ arg = RunExample
    /\ tokens = << <<"x", "y", "z">> \o W_NOT, W_OR, <<"a", "b", "c">> >>
    /\ ret.ast = BinExpr(Unparsed(<< <<"x", "y", "z">> \o W_NOT >>),
                         Unparsed(<< <<"a", "b", "c">> >>), OpOr)

(***************************************************************************)
(* C16: a tree returned by a successful boolean Parse accounts for every   *)
(* token of the input once and in order: each Unparsed leaf holds a run of *)
(* tokens, not empty, none of them a keyword or a parenthesis, and the     *)
(* tree read from left to right (the contents of a leaf, AND or OR between *)
(* its operands, NOT before its operand) is the token sequence of the      *)
(* input without its parenthesis tokens.                                   *)
(***************************************************************************)
\* the configuration of the parser the call ran on
ConfigOf == IF op = "Parse" THEN DefaultConfig ELSE FoldParser(arg.config).config

OpToken(cfg, o) == IF o = OpAnd THEN cfg.And ELSE IF o = OpOr THEN cfg.Or ELSE cfg.Not

RECURSIVE InOrder(_, _)
InOrder(ast, cfg) ==
    IF ast.type = "Unparsed" THEN ast.Contents
    ELSE IF ast.type = "UnaryExpr" THEN <<OpToken(cfg, ast.Op)>> \o InOrder(ast.Expr, cfg)
    ELSE InOrder(ast.LHS, cfg) \o <<OpToken(cfg, ast.Op)>> \o InOrder(ast.RHS, cfg)

WithoutParens(toks, cfg) ==
    LET NotParen(t) == t \notin {cfg.OpenParen, cfg.CloseParen}
    IN SelectSeq(toks, NotParen)

LeavesLiteral(ast, cfg) ==
    \A c \in Leaves(ast) :
        /\ c # << >>
        /\ \A k \in 1..Len(c) : c[k] \notin {cfg[t] : t \in Token}

C16_TreeAccountsForTokens ==
    ((Done("Parse") \/ Done("ParseFold")) /\ ret.err = NoErr) =>
        /\ LeavesLiteral(ret.ast, ConfigOf)
        /\ InOrder(ret.ast, ConfigOf) = WithoutParens(tokens, ConfigOf)
        /\ (op = "Parse" /\ arg.family = "tokens") => tokens = arg.toks

\* '( x ) AND x': five tokens, three of them in the tree
C16_Witness ==
    /\ Done("Parse") /\ arg.family = "tokens"
    /\ arg.toks = << <<"(">>, <<"x">>, <<")">>, W_AND, <<"x">> >>
    /\ tokens = arg.toks
    /\ ret.err = NoErr
    /\ ret.ast = BinExpr(U("x"), U("x"), OpAnd)
    /\ InOrder(ret.ast, DefaultConfig) = << <<"x">>, W_AND, <<"x">> >>
====
